---- MODULE Spec2Model ----
(***************************************************************************)
(* Alpha-miner discovery pipeline of alpha_algo_app.py:                    *)
(*   identify_initial_and_final_events -> compute_directly_follows ->      *)
(*   create_footprint -> find_independent_sets -> find_transitions ->      *)
(*   filter_maximal_sets                                                   *)
(* as start_analyser runs it over one trace dictionary.                    *)
(*                                                                         *)
(* A Python dict is a function; its keys are DOMAIN.  The trace dictionary *)
(* is kept as the sequence of its items (a dict iterates in insertion      *)
(* order).  A Python set of strings iterates in an order that depends on   *)
(* the process's string hashing: that order is the nondeterministic        *)
(* variable `events`, chosen when list(events) is taken.                   *)
(***************************************************************************)
EXTENDS Integers, Sequences, FiniteSets, TLC

\* ------------------------------------------------------------------ bounds
\* number of distinct activity labels a log may use
NumActs == 3
\* size of a log: the sum over its traces of count * length
MaxEvents == 4
\* the thresholds of the minimum-frequency filter are k / ThresholdSteps
ThresholdSteps == 2
\* a transitions dictionary given to filter_maximal_sets on its own has at
\* most MaxTransitions keys, each with at most MaxKeySize activities
MaxTransitions == 3
MaxKeySize == 3

ActNames == <<"a", "b", "c", "d", "e", "f">>
Acts == {ActNames[i] : i \in 1..NumActs}

VARIABLES trace_dict, pc, initial_events, final_events, directly_follows,
          error, footprint_matrix, events, independent_sets, transitions,
          maximal_sets, df_log, min_frequency

vars == <<trace_dict, pc, initial_events, final_events, directly_follows,
          error, footprint_matrix, events, independent_sets, transitions,
          maximal_sets, df_log, min_frequency>>

\* ------------------------------------------------------------ Python values
\* A count as Python sees it: an int, a float (val + 1/2), or no 'count' key.
IntVal(n) == [type |-> "int", val |-> n]
FloatVal(n) == [type |-> "float", val |-> n]
Missing == [type |-> "missing", val |-> 0]

\* the empty dict / the empty list
Empty == <<>>

\* metrics.get('count', 0)
GetCount(metrics) ==
    IF metrics.count.type = "missing" THEN IntVal(0) ELSE metrics.count

\* isinstance(qty, int)
IsInt(qty) == qty.type = "int"

Range(s) == {s[i] : i \in 1..Len(s)}

\* the orders in which a set can be iterated
Orderings(S) ==
    {s \in [1..Cardinality(S) -> S] :
        \A i, j \in 1..Cardinality(S) : i # j => s[i] # s[j]}

\* ------------------------------------------------------------------ inputs
TracesUpTo(n) == UNION {[1..k -> Acts] : k \in 1..n}

\* the counts a trace dictionary of read_log_file can hold for a trace of
\* length l within the budget: positive integers
ValidMetrics(l, budget) ==
    {[count |-> IntVal(c)] : c \in 1..(budget \div l)}

\* a count that is not a positive integer: zero, negative, non-integer, missing
InvalidMetrics ==
    {[count |-> IntVal(0)], [count |-> IntVal(-1)], [count |-> FloatVal(1)],
     [count |-> Missing]}

Weight(metrics) ==
    IF metrics.count.type = "int" /\ metrics.count.val > 0
    THEN metrics.count.val ELSE 1

RECURSIVE DictsWithin(_, _, _)
\* the item sequences of the dicts with distinct non-empty traces as keys, of
\* size at most budget; invalid = TRUE admits the counts of InvalidMetrics too
DictsWithin(budget, used, invalid) ==
    {Empty} \cup
    UNION {
      UNION {
        {<<[trace |-> t, metrics |-> m]>> \o rest :
            rest \in DictsWithin(budget - Len(t) * Weight(m), used \cup {t}, invalid)}
        : m \in ValidMetrics(Len(t), budget)
                \cup (IF invalid THEN InvalidMetrics ELSE {})}
      : t \in TracesUpTo(budget) \ used}

\* ------------------------------------------------------------ read_log_file
\* a float that is the quotient of two integers: count / len(df_grouped), or
\* the threshold typed into the side bar
Rational(n, d) == [num |-> n, den |-> d]

\* info['frequency'] >= min_frequency
GreaterEq(x, y) == x.num * y.den >= y.num * x.den

RECURSIVE CaseTraces(_)
\* the traces of cases 1, 2, ... of a log with at most budget rows
CaseTraces(budget) ==
    {Empty} \cup
    UNION {{<<t>> \o rest : rest \in CaseTraces(budget - Len(t))}
              : t \in TracesUpTo(budget)}

\* the rows of the CSV file (usecols of read_csv); within a case the
\* timestamps are distinct, so that sorting by them is an order
LogOf(cases) ==
    UNION {{[case_id |-> c, activity_name |-> cases[c][i], timestamp |-> i]
               : i \in 1..Len(cases[c])} : c \in 1..Len(cases)}

\* the logs with at least one case
Logs(budget) == {LogOf(cases) : cases \in CaseTraces(budget) \ {Empty}}

RECURSIVE SortByTimestamp(_)
\* sort_values within one case: its rows in ascending order of timestamp
SortByTimestamp(rows) ==
    IF rows = {} THEN Empty
    ELSE LET first == CHOOSE r \in rows : \A q \in rows : r.timestamp <= q.timestamp
         IN  <<first>> \o SortByTimestamp(rows \ {first})

RECURSIVE SortCaseIds(_)
\* the case_ids in ascending order, as sort_values and groupby leave them
SortCaseIds(ids) ==
    IF ids = {} THEN Empty
    ELSE LET first == CHOOSE c \in ids : \A d \in ids : c <= d
         IN  <<first>> \o SortCaseIds(ids \ {first})

\* the rows of one case sorted by timestamp, as the tuple of their activities
TraceOfCase(log, c) ==
    LET rows == SortByTimestamp({r \in log : r.case_id = c})
    IN  [i \in 1..Len(rows) |-> rows[i].activity_name]

\* df_grouped: one trace per case_id, in ascending case_id
GroupByCase(log) ==
    LET ids == SortCaseIds({r.case_id : r \in log})
    IN  [i \in 1..Len(ids) |-> TraceOfCase(log, ids[i])]

RECURSIVE Distinct(_)
\* the distinct members of a sequence in order of first appearance
Distinct(s) ==
    IF s = Empty THEN Empty
    ELSE LET rest == Distinct(SelectSeq(Tail(s), LAMBDA x : x # Head(s)))
         IN  <<Head(s)>> \o rest

CountOf(s, x) == Cardinality({i \in 1..Len(s) : s[i] = x})

RECURSIVE ByCountDown(_, _, _)
\* the distinct traces with count c, then those with smaller counts
ByCountDown(traces, grouped, c) ==
    IF c = 0 THEN Empty
    ELSE SelectSeq(traces, LAMBDA t : CountOf(grouped, t) = c)
         \o ByCountDown(traces, grouped, c - 1)

\* df_grouped['trace'].value_counts(): the distinct traces, most frequent first
value_counts(grouped) == ByCountDown(Distinct(grouped), grouped, Len(grouped))

\* ItemMetrics with a fault: the denominator is the number of distinct traces
ItemMetricsDistinct(count, grouped, trace_counts) ==
    [count |-> IntVal(count), frequency |-> Rational(count, Len(trace_counts))]

\* {'count': count, 'frequency': count / len(df_grouped)}
ItemMetrics(count, grouped, trace_counts) ==
    [count |-> IntVal(count), frequency |-> Rational(count, Len(grouped))]

read_log_file(log) ==
    LET df_grouped == GroupByCase(log)
        trace_counts == value_counts(df_grouped)
    IN  [i \in 1..Len(trace_counts) |->
            [trace |-> trace_counts[i],
             metrics |-> ItemMetrics(CountOf(df_grouped, trace_counts[i]),
                                     df_grouped, trace_counts)]]

\* the dict comprehension of the front end's start_analyser (line 169)
FilterByFrequency(td, threshold) ==
    SelectSeq(td, LAMBDA item : GreaterEq(item.metrics.frequency, threshold))

\* ------------------------------------------------------ boundary activities
\* identify_initial_and_final_events; trace[-1] is trace[Len(trace)]
identify_initial_and_final_events(td) ==
    [initial |-> {td[i].trace[1] : i \in 1..Len(td)},
     final   |-> {td[i].trace[Len(td[i].trace)] : i \in 1..Len(td)}]

\* --------------------------------------------------------- directly follows
\* Accumulate with a fault: the edge is overwritten, not accumulated
AccumulateOverwrite(df, pair, qty) ==
    IF pair \in DOMAIN df THEN [df EXCEPT ![pair] = qty] ELSE df @@ (pair :> qty)

\* directly_follows[pair] = directly_follows.get(pair, 0) + qty
Accumulate(df, pair, qty) ==
    IF pair \in DOMAIN df THEN [df EXCEPT ![pair] = @ + qty] ELSE df @@ (pair :> qty)

RECURSIVE AddPairs(_, _, _, _)
\* for i in range(len(trace) - 1): pair = (trace[i], trace[i + 1]); ...
AddPairs(df, trace, qty, i) ==
    IF i > Len(trace) - 1 THEN df
    ELSE AddPairs(Accumulate(df, <<trace[i], trace[i + 1]>>, qty), trace, qty, i + 1)

\* the body of the loop of compute_directly_follows after the isinstance test
AddTrace(df, trace, qty, start_events, end_events) ==
    LET d1 == IF trace[1] \in start_events
              THEN Accumulate(df, <<"start", trace[1]>>, qty) ELSE df
        d2 == AddPairs(d1, trace, qty, 1)
    IN  IF trace[Len(trace)] \in end_events
        THEN Accumulate(d2, <<trace[Len(trace)], "end">>, qty) ELSE d2

RECURSIVE DfLoop(_, _, _, _, _)
\* for trace, metrics in trace_dict.items(): ... ; a raise leaves the function
\* without a return value
DfLoop(td, i, start_events, end_events, df) ==
    IF i > Len(td) THEN [raised |-> FALSE, value |-> df, trace |-> Empty]
    ELSE LET qty == GetCount(td[i].metrics)
         IN  IF ~IsInt(qty)
             THEN [raised |-> TRUE, value |-> Empty, trace |-> td[i].trace]
             ELSE DfLoop(td, i + 1, start_events, end_events,
                         AddTrace(df, td[i].trace, qty.val, start_events, end_events))

compute_directly_follows(td, start_events, end_events) ==
    DfLoop(td, 1, start_events, end_events, Empty)

\* ---------------------------------------------------------------- footprint
Sentinels == {"start", "end"}

\* the activities of create_footprint: every non-sentinel end of an edge
Activities(df) ==
    {p[1] : p \in {q \in DOMAIN df : q[1] \notin Sentinels}}
    \cup {p[2] : p \in {q \in DOMAIN df : q[2] \notin Sentinels}}

\* Classify with a fault: the last two branches give the same symbol
ClassifyOneWay(df, a, b) ==
    IF a = b THEN (IF <<a, a>> \in DOMAIN df THEN "| |" ELSE " # ")
    ELSE LET follows_ab == <<a, b>> \in DOMAIN df
             follows_ba == <<b, a>> \in DOMAIN df
         IN  IF follows_ab /\ follows_ba THEN "| |"
             ELSE IF follows_ab THEN "-->"
             ELSE IF follows_ba THEN "-->"
             ELSE " # "

\* Classify with a fault: a self-loop is not looked at
ClassifyNoLoop(df, a, b) ==
    IF a = b THEN " # "
    ELSE LET follows_ab == <<a, b>> \in DOMAIN df
             follows_ba == <<b, a>> \in DOMAIN df
         IN  IF follows_ab /\ follows_ba THEN "| |"
             ELSE IF follows_ab THEN "-->"
             ELSE IF follows_ba THEN "<--"
             ELSE " # "

\* the body of the double loop of create_footprint
Classify(df, a, b) ==
    IF a = b THEN (IF <<a, a>> \in DOMAIN df THEN "| |" ELSE " # ")
    ELSE LET follows_ab == <<a, b>> \in DOMAIN df
             follows_ba == <<b, a>> \in DOMAIN df
         IN  IF follows_ab /\ follows_ba THEN "| |"
             ELSE IF follows_ab THEN "-->"
             ELSE IF follows_ba THEN "<--"
             ELSE " # "

create_footprint(df) ==
    [p \in Activities(df) \X Activities(df) |-> Classify(df, p[1], p[2])]

\* --------------------------------------------------------- independent sets
\* footprint_matrix.get((a, b), ' # ')
GetOr(fm, a, b) == IF <<a, b>> \in DOMAIN fm THEN fm[<<a, b>>] ELSE " # "

\* footprint_matrix.get((a, b)): None when the key is absent
Get(fm, a, b) == IF <<a, b>> \in DOMAIN fm THEN fm[<<a, b>>] ELSE "None"

\* is_independent_set with a fault: only neighbours in the tuple are compared
is_independent_set_adjacent(fm, group_of_events) ==
    \A i \in 1..Len(group_of_events) : \A j \in (i + 1)..Len(group_of_events) :
        j = i + 1 =>
        LET a == group_of_events[i]
            b == group_of_events[j]
        IN  ~(GetOr(fm, a, b) # " # " \/ GetOr(fm, b, a) # " # ")

\* is_independent_set: no pair i < j of the tuple is related
is_independent_set(fm, group_of_events) ==
    \A i \in 1..Len(group_of_events) : \A j \in (i + 1)..Len(group_of_events) :
        LET a == group_of_events[i]
            b == group_of_events[j]
        IN  ~(GetOr(fm, a, b) # " # " \/ GetOr(fm, b, a) # " # ")

RECURSIVE combinations(_, _)
\* itertools.combinations(s, r): the r-length subsequences of s, in
\* lexicographic order of their positions
combinations(s, r) ==
    IF r = 0 THEN <<Empty>>
    ELSE IF Len(s) < r THEN Empty
    ELSE LET with == combinations(Tail(s), r - 1)
         IN  [i \in 1..Len(with) |-> <<Head(s)>> \o with[i]]
             \o combinations(Tail(s), r)

\* set(subset)
ToSet(tuple) == Range(tuple)

\* the keys of the footprint as find_independent_sets collects them
EventsOf(fm) == {p[1] : p \in DOMAIN fm} \cup {p[2] : p \in DOMAIN fm}

RECURSIVE SubsetsOfSize(_, _, _)
\* for r in range(first, len(events) + 1): for subset in combinations(events, r)
SubsetsOfSize(fm, evs, r) ==
    IF r > Len(evs) THEN Empty
    ELSE LET all == combinations(evs, r)
             kept == SelectSeq(all, LAMBDA subset : is_independent_set(fm, subset))
         IN  [i \in 1..Len(kept) |-> ToSet(kept[i])] \o SubsetsOfSize(fm, evs, r + 1)

\* find_independent_sets with a fault: range(len(events) + 1) also takes r = 0
find_independent_sets_from0(fm, evs) == SubsetsOfSize(fm, evs, 0)

\* find_independent_sets with a fault: range(2, ...) skips the singletons
find_independent_sets_from2(fm, evs) == SubsetsOfSize(fm, evs, 2)

\* find_independent_sets, with evs the list(events) the run iterates
find_independent_sets(fm, evs) == SubsetsOfSize(fm, evs, 1)

\* -------------------------------------------------------------- transitions
\* tuple(set1): the members of the set in the run's iteration order
TupleOf(S, evs) == SelectSeq(evs, LAMBDA x : x \in S)

\* check_relationship on two sets (lines 201-203, 209)
check_relationship(fm, A, B) ==
    LET relationships == {Get(fm, a, b) : a \in A, b \in B}
    IN  IF Cardinality(relationships) = 1
        THEN CHOOSE r \in relationships : TRUE ELSE "None"

\* transitions[key] = value
Put(d, key, value) ==
    IF key \in DOMAIN d THEN [d EXCEPT ![key] = value] ELSE d @@ (key :> value)

\* Record with a fault: a causal-backward pair is recorded without the swap
RecordNoSwap(tr, fm, set1, set2, evs) ==
    LET relationship == check_relationship(fm, set1, set2)
    IN  IF relationship \in {"-->", "| |"}
        THEN Put(tr, <<TupleOf(set1, evs), TupleOf(set2, evs)>>, relationship)
        ELSE IF relationship = "<--"
        THEN Put(tr, <<TupleOf(set1, evs), TupleOf(set2, evs)>>, "-->")
        ELSE tr

\* the body of the loop of find_transitions
Record(tr, fm, set1, set2, evs) ==
    LET relationship == check_relationship(fm, set1, set2)
    IN  IF relationship \in {"-->", "| |"}
        THEN Put(tr, <<TupleOf(set1, evs), TupleOf(set2, evs)>>, relationship)
        ELSE IF relationship = "<--"
        THEN Put(tr, <<TupleOf(set2, evs), TupleOf(set1, evs)>>, "-->")
        ELSE tr

RECURSIVE TransitionsLoop(_, _, _, _, _)
\* for set1, set2 in combinations(independent_sets, 2)
TransitionsLoop(tr, fm, pairs, i, evs) ==
    IF i > Len(pairs) THEN tr
    ELSE TransitionsLoop(Record(tr, fm, pairs[i][1], pairs[i][2], evs),
                         fm, pairs, i + 1, evs)

\* find_transitions with a fault: a set is also paired with itself
\* (combinations_with_replacement)
find_transitions_self_pairs(fm, ind, evs) ==
    TransitionsLoop(Empty, fm,
                    combinations(ind, 2) \o [i \in 1..Len(ind) |-> <<ind[i], ind[i]>>],
                    1, evs)

find_transitions(fm, ind, evs) ==
    TransitionsLoop(Empty, fm, combinations(ind, 2), 1, evs)

\* ----------------------------------------------------------- maximal filter
\* set(product(set1, set2))
deconstruct_subset(subset) == Range(subset[1]) \X Range(subset[2])

\* the pairs map_pairs_to_sets files a transition under
IndexedPairs(tr, complex_set) ==
    LET pairs == deconstruct_subset(complex_set)
    IN  IF tr[complex_set] = "| |"
        THEN pairs \cup {<<p[2], p[1]>> : p \in pairs} ELSE pairs

map_pairs_to_sets(tr) ==
    LET keys == UNION {IndexedPairs(tr, cs) : cs \in DOMAIN tr}
    IN  [pair \in keys |-> {cs \in DOMAIN tr : pair \in IndexedPairs(tr, cs)}]

\* Discarded with a fault: nothing is ever discarded
DiscardedNever(pair_to_sets, complex_set) == FALSE

\* whether the loops of filter_maximal_sets discard complex_set
Discarded(pair_to_sets, complex_set) ==
    LET pairs == deconstruct_subset(complex_set)
    IN  \E pair \in pairs : \E larger_set \in pair_to_sets[pair] :
            /\ larger_set # complex_set
            /\ \A p \in pairs : p \in deconstruct_subset(larger_set)

filter_maximal_sets(tr) ==
    LET pair_to_sets == map_pairs_to_sets(tr)
        maximal == {cs \in DOMAIN tr : ~Discarded(pair_to_sets, cs)}
    IN  [cs \in maximal |-> tr[cs]]

\* ------------------------------------------------------------ start_analyser
InitWith(dicts) ==
    /\ trace_dict \in dicts
    /\ pc = "start"
    /\ initial_events = {}
    /\ final_events = {}
    /\ directly_follows = Empty
    /\ error = Empty
    /\ footprint_matrix = Empty
    /\ events = Empty
    /\ independent_sets = Empty
    /\ transitions = Empty
    /\ maximal_sets = Empty
    /\ df_log = {}
    /\ min_frequency = Rational(0, 1)

\* a trace dictionary as read_log_file builds it
Init == InitWith(DictsWithin(MaxEvents, {}, FALSE))

\* any dict handed to compute_directly_follows, counts unvalidated
InitAnyCount == InitWith(DictsWithin(MaxEvents, {}, TRUE))

IdentifyBoundaries ==
    /\ pc = "start"
    /\ LET r == identify_initial_and_final_events(trace_dict)
       IN  /\ initial_events' = r.initial
           /\ final_events' = r.final
    /\ pc' = "boundaries"
    /\ UNCHANGED <<df_log, min_frequency>>
    /\ UNCHANGED <<trace_dict, directly_follows, error, footprint_matrix, events,
                   independent_sets, transitions, maximal_sets>>

\* compute_directly_follows; a ValueError ends start_analyser in its except
ComputeDirectlyFollows ==
    /\ pc = "boundaries"
    /\ LET r == compute_directly_follows(trace_dict, initial_events, final_events)
       IN  /\ directly_follows' = r.value
           /\ error' = IF r.raised THEN <<r.trace>> ELSE Empty
           /\ pc' = IF r.raised THEN "failed" ELSE "df"
    /\ UNCHANGED <<df_log, min_frequency>>
    /\ UNCHANGED <<trace_dict, initial_events, final_events, footprint_matrix,
                   events, independent_sets, transitions, maximal_sets>>

CreateFootprint ==
    /\ pc = "df"
    /\ footprint_matrix' = create_footprint(directly_follows)
    /\ pc' = "footprint"
    /\ UNCHANGED <<df_log, min_frequency>>
    /\ UNCHANGED <<trace_dict, initial_events, final_events, directly_follows,
                   error, events, independent_sets, transitions, maximal_sets>>

\* events = list(events) takes the set's iteration order, whatever it is
FindIndependentSets ==
    /\ pc = "footprint"
    /\ \E evs \in Orderings(EventsOf(footprint_matrix)) :
          /\ events' = evs
          /\ independent_sets' = find_independent_sets(footprint_matrix, evs)
    /\ pc' = "independent"
    /\ UNCHANGED <<df_log, min_frequency>>
    /\ UNCHANGED <<trace_dict, initial_events, final_events, directly_follows,
                   error, footprint_matrix, transitions, maximal_sets>>

FindTransitions ==
    /\ pc = "independent"
    /\ transitions' = find_transitions(footprint_matrix, independent_sets, events)
    /\ pc' = "transitions"
    /\ UNCHANGED <<df_log, min_frequency>>
    /\ UNCHANGED <<trace_dict, initial_events, final_events, directly_follows,
                   error, footprint_matrix, events, independent_sets, maximal_sets>>

FilterMaximalSets ==
    /\ pc = "transitions"
    /\ maximal_sets' = filter_maximal_sets(transitions)
    /\ pc' = "done"
    /\ UNCHANGED <<df_log, min_frequency>>
    /\ UNCHANGED <<trace_dict, initial_events, final_events, directly_follows,
                   error, footprint_matrix, events, independent_sets, transitions>>

Next ==
    \/ IdentifyBoundaries
    \/ ComputeDirectlyFollows
    \/ CreateFootprint
    \/ FindIndependentSets
    \/ FindTransitions
    \/ FilterMaximalSets

Spec == Init /\ [][Next]_vars

SpecAnyCount == InitAnyCount /\ [][Next]_vars

\* ------------------------------------- the front end before the discovery
Thresholds == {Rational(k, ThresholdSteps) : k \in 0..ThresholdSteps}

InitFront ==
    /\ df_log \in Logs(MaxEvents)
    /\ min_frequency \in Thresholds
    /\ trace_dict = Empty
    /\ pc = "log"
    /\ initial_events = {}
    /\ final_events = {}
    /\ directly_follows = Empty
    /\ error = Empty
    /\ footprint_matrix = Empty
    /\ events = Empty
    /\ independent_sets = Empty
    /\ transitions = Empty
    /\ maximal_sets = Empty

ReadLogFile ==
    /\ pc = "log"
    /\ trace_dict' = read_log_file(df_log)
    /\ pc' = "read"
    /\ UNCHANGED <<df_log, min_frequency, initial_events, final_events,
                   directly_follows, error, footprint_matrix, events,
                   independent_sets, transitions, maximal_sets>>

\* the filter; what it leaves is handed to the discovery stages
FilterTraces ==
    /\ pc = "read"
    /\ trace_dict' = FilterByFrequency(trace_dict, min_frequency)
    /\ pc' = "start"
    /\ UNCHANGED <<df_log, min_frequency, initial_events, final_events,
                   directly_follows, error, footprint_matrix, events,
                   independent_sets, transitions, maximal_sets>>

NextFront == ReadLogFile \/ FilterTraces

SpecFront == InitFront /\ [][NextFront]_vars

\* ------------------------------------------- filter_maximal_sets on its own
\* tuple(set1): the members of a non-empty set in some order
KeyTuples == UNION {Orderings(S) : S \in SUBSET Acts \ {{}}}

\* the keys (tuple(set1), tuple(set2)) a transitions dictionary can have
Keys(size) == {k \in KeyTuples \X KeyTuples : Len(k[1]) + Len(k[2]) <= size}

RECURSIVE KeySets(_, _)
\* the sets of at most n keys
KeySets(n, size) ==
    IF n = 0 THEN {{}}
    ELSE LET smaller == KeySets(n - 1, size)
         IN  smaller \cup UNION {{K \cup {k} : k \in Keys(size)} : K \in smaller}

\* any transitions dictionary, not only those find_transitions builds
TransitionDicts(n, size) == UNION {[K -> {"-->", "| |"}] : K \in KeySets(n, size)}

InitFilter ==
    /\ transitions \in TransitionDicts(MaxTransitions, MaxKeySize)
    /\ pc = "transitions"
    /\ trace_dict = Empty
    /\ initial_events = {}
    /\ final_events = {}
    /\ directly_follows = Empty
    /\ error = Empty
    /\ footprint_matrix = Empty
    /\ events = Empty
    /\ independent_sets = Empty
    /\ maximal_sets = Empty
    /\ df_log = {}
    /\ min_frequency = Rational(0, 1)

NextFilter == FilterMaximalSets

SpecFilter == InitFilter /\ [][NextFilter]_vars

\* ================================================================== claims
AfterDf == {"df", "footprint", "independent", "transitions", "done"}
AfterFootprint == {"footprint", "independent", "transitions", "done"}
AfterIndependent == {"independent", "transitions", "done"}
AfterTransitions == {"transitions", "done"}

\* the cross-pair coverage of a transition key: input set x output set
CrossPairs(k) == {<<a, b>> : a \in ToSet(k[1]), b \in ToSet(k[2])}

\* C1 (maximality): no transition kept by filter_maximal_sets has a coverage
\* that is a strict subset of the coverage of another transition kept.
C1_Maximality ==
    pc = "done" =>
        \A t, u \in DOMAIN maximal_sets :
            ~(CrossPairs(t) \subseteq CrossPairs(u) /\ CrossPairs(t) # CrossPairs(u))

\* the filter has run and has discarded a dominated transition
C1_Witness ==
    /\ pc = "done"
    /\ \E t \in DOMAIN transitions : t \notin DOMAIN maximal_sets
    /\ DOMAIN maximal_sets # {}

\* every cross pair of A x B has the symbol s in the footprint
Uniform(A, B, s) == \A a \in A, b \in B : footprint_matrix[<<a, b>>] = s

\* a transition from input set A to output set B is recorded
HasKey(A, B) ==
    \E k \in DOMAIN transitions : ToSet(k[1]) = A /\ ToSet(k[2]) = B

\* ... and recorded with symbol s
Recorded(A, B, s) ==
    \E k \in DOMAIN transitions :
        ToSet(k[1]) = A /\ ToSet(k[2]) = B /\ transitions[k] = s

\* C2 (transition discovery): for sets A before B in the list, a uniform
\* causal-forward or parallel symbol records (A -> B) with it, a uniform
\* causal-backward symbol records (B -> A) as causal-forward, anything else
\* records nothing for the pair; no other key, and no self pair, is recorded.
C2_TransitionDiscovery ==
    pc \in AfterTransitions =>
        /\ \A i, j \in 1..Len(independent_sets) : i < j =>
              LET A == independent_sets[i]
                  B == independent_sets[j]
              IN  /\ Uniform(A, B, "-->") => Recorded(A, B, "-->") /\ ~HasKey(B, A)
                  /\ Uniform(A, B, "| |") => Recorded(A, B, "| |") /\ ~HasKey(B, A)
                  /\ Uniform(A, B, "<--") => Recorded(B, A, "-->") /\ ~HasKey(A, B)
                  /\ ~(\E s \in {"-->", "| |", "<--"} : Uniform(A, B, s))
                        => ~HasKey(A, B) /\ ~HasKey(B, A)
        /\ \A k \in DOMAIN transitions :
              /\ ToSet(k[1]) # ToSet(k[2])
              /\ \E i, j \in 1..Len(independent_sets) :
                    /\ i # j
                    /\ ToSet(k[1]) = independent_sets[i]
                    /\ ToSet(k[2]) = independent_sets[j]

\* transitions were found: a reversed causal one, a parallel one, and a pair
\* of sets with mixed symbols that records nothing
C2_Witness ==
    /\ pc = "transitions"
    /\ \E i, j \in 1..Len(independent_sets) :
          i < j /\ Uniform(independent_sets[i], independent_sets[j], "<--")
    /\ \E i, j \in 1..Len(independent_sets) :
          /\ i < j
          /\ Cardinality({footprint_matrix[<<a, b>>] :
                            a \in independent_sets[i], b \in independent_sets[j]}) > 1

\* the non-empty sets of activities whose distinct members are pairwise
\* independent in both directions
IndependentSubsets ==
    {S \in SUBSET EventsOf(footprint_matrix) \ {{}} :
        \A a, b \in S : a # b =>
            /\ footprint_matrix[<<a, b>>] = " # "
            /\ footprint_matrix[<<b, a>>] = " # "}

\* C3 (independent sets, sound and complete): the list holds exactly the
\* non-empty pairwise independent subsets of the activities, each once.
C3_IndependentSetsExact ==
    pc \in AfterIndependent =>
        /\ Range(independent_sets) = IndependentSubsets
        /\ \A i, j \in 1..Len(independent_sets) :
              i # j => independent_sets[i] # independent_sets[j]

\* a list with a set of two members, over a footprint with a related pair
C3_Witness ==
    /\ pc = "independent"
    /\ \E i \in 1..Len(independent_sets) : Cardinality(independent_sets[i]) >= 2
    /\ \E p \in DOMAIN footprint_matrix : p[1] # p[2] /\ footprint_matrix[p] # " # "

\* a trace between the synthetic 'start' and 'end'
Extended(trace) == <<"start">> \o trace \o <<"end">>

\* how often edge e occurs in sequence s
Occurrences(e, s) ==
    Cardinality({i \in 1..(Len(s) - 1) : s[i] = e[1] /\ s[i + 1] = e[2]})

RECURSIVE WeightedOccurrences(_, _)
\* the sum over the first n traces of count * occurrences of e
WeightedOccurrences(e, n) ==
    IF n = 0 THEN 0
    ELSE trace_dict[n].metrics.count.val * Occurrences(e, Extended(trace_dict[n].trace))
         + WeightedOccurrences(e, n - 1)

RECURSIVE TotalCases(_)
TotalCases(n) ==
    IF n = 0 THEN 0 ELSE trace_dict[n].metrics.count.val + TotalCases(n - 1)

RECURSIVE SumEdges(_, _)
\* the sum of the counts of the edges of the set E
SumEdges(df, E) ==
    IF E = {} THEN 0
    ELSE LET e == CHOOSE x \in E : TRUE IN df[e] + SumEdges(df, E \ {e})

ExtendedEdges ==
    UNION {{<<Extended(trace_dict[n].trace)[i], Extended(trace_dict[n].trace)[i + 1]>> :
              i \in 1..(Len(trace_dict[n].trace) + 1)} : n \in 1..Len(trace_dict)}

\* C4 (directly-follows accumulation): the edges are those of the extended
\* traces, each counted count * occurrences summed over the traces; the
\* (start, x) counts and the (x, end) counts each sum to the number of cases.
C4_DirectlyFollowsCounts ==
    pc \in AfterDf =>
        /\ DOMAIN directly_follows = ExtendedEdges
        /\ \A e \in DOMAIN directly_follows :
              directly_follows[e] = WeightedOccurrences(e, Len(trace_dict))
        /\ SumEdges(directly_follows,
                    {e \in DOMAIN directly_follows : e[1] = "start"})
              = TotalCases(Len(trace_dict))
        /\ SumEdges(directly_follows,
                    {e \in DOMAIN directly_follows : e[2] = "end"})
              = TotalCases(Len(trace_dict))

\* an edge met in two traces, one of them counted more than once
C4_Witness ==
    /\ pc = "df"
    /\ \E e \in DOMAIN directly_follows : \E m, n \in 1..Len(trace_dict) :
          /\ m # n
          /\ Occurrences(e, Extended(trace_dict[m].trace)) > 0
          /\ Occurrences(e, Extended(trace_dict[n].trace)) > 0
          /\ trace_dict[m].metrics.count.val > 1

\* the real activities that occur in the directly-follows relation
RealActs ==
    {x \in UNION {{e[1], e[2]} : e \in DOMAIN directly_follows} : x \notin Sentinels}

\* the policy table of the footprint
Policy(a, b) ==
    LET fwd == <<a, b>> \in DOMAIN directly_follows
        bwd == <<b, a>> \in DOMAIN directly_follows
    IN  CASE a = b /\ fwd -> "| |"
          [] a = b /\ ~fwd -> " # "
          [] a # b /\ fwd /\ bwd -> "| |"
          [] a # b /\ fwd /\ ~bwd -> "-->"
          [] a # b /\ ~fwd /\ bwd -> "<--"
          [] a # b /\ ~fwd /\ ~bwd -> " # "

\* C5 (footprint classification): the matrix is defined on exactly the
\* ordered pairs of real activities of the relation, each classified by the
\* policy table (a self-loop is parallel); no sentinel is in a key.
C5_FootprintPolicy ==
    pc \in AfterFootprint =>
        /\ DOMAIN footprint_matrix = RealActs \X RealActs
        /\ \A p \in DOMAIN footprint_matrix :
              /\ footprint_matrix[p] = Policy(p[1], p[2])
              /\ p[1] \notin Sentinels /\ p[2] \notin Sentinels

\* a footprint with a self-loop and a causal pair
C5_Witness ==
    /\ pc = "footprint"
    /\ \E a \in RealActs : <<a, a>> \in DOMAIN directly_follows
    /\ \E p \in DOMAIN footprint_matrix : footprint_matrix[p] = "-->"

\* C6 (footprint symmetry): (a,b) is causal-forward iff (b,a) is
\* causal-backward; parallel and independent are symmetric.
C6_FootprintSymmetry ==
    pc \in AfterFootprint =>
        \A p \in DOMAIN footprint_matrix :
            LET q == <<p[2], p[1]>>
            IN  /\ q \in DOMAIN footprint_matrix
                /\ footprint_matrix[p] = "-->" <=> footprint_matrix[q] = "<--"
                /\ footprint_matrix[p] = "| |" <=> footprint_matrix[q] = "| |"
                /\ footprint_matrix[p] = " # " <=> footprint_matrix[q] = " # "

\* a footprint with a causal pair and a parallel pair of distinct activities
C6_Witness ==
    /\ pc = "footprint"
    /\ \E p \in DOMAIN footprint_matrix : footprint_matrix[p] = "-->"
    /\ \E p \in DOMAIN footprint_matrix : p[1] # p[2] /\ footprint_matrix[p] = "| |"

\* a transition dictionary as input set -> output set with its symbol
AsSetPairs(tr) == {<<ToSet(k[1]), ToSet(k[2]), tr[k]>> : k \in DOMAIN tr}

\* the maximal transitions of a run that iterates the activities in order evs
MaximalUnder(evs) ==
    filter_maximal_sets(
        find_transitions(footprint_matrix,
                         find_independent_sets(footprint_matrix, evs), evs))

\* C7 (determinism): a finished run has the footprint, the independent sets
\* (as a set of sets) and the maximal transitions (input -> output with its
\* symbol) of any other run on the same trace dictionary, whatever order the
\* other run iterates the activity set in.
C7_Deterministic ==
    pc = "done" =>
        LET r == identify_initial_and_final_events(trace_dict)
            df == compute_directly_follows(trace_dict, r.initial, r.final).value
            fm == create_footprint(df)
        IN  /\ fm = footprint_matrix
            /\ \A evs \in Orderings(EventsOf(fm)) :
                  /\ Range(find_independent_sets(fm, evs)) = Range(independent_sets)
                  /\ AsSetPairs(MaximalUnder(evs)) = AsSetPairs(maximal_sets)

\* a count that is a positive integer
PositiveInt(metrics) == metrics.count.type = "int" /\ metrics.count.val > 0

\* C8 (count validation): with a count that is not a positive integer in the
\* dictionary, compute_directly_follows raises, naming such a trace, and
\* returns no relation.
C8_CountValidated ==
    LET bad == {i \in 1..Len(trace_dict) : ~PositiveInt(trace_dict[i].metrics)}
    IN  (bad # {} /\ pc \notin {"start", "boundaries"}) =>
            /\ pc = "failed"
            /\ directly_follows = Empty
            /\ \E i \in bad : error = <<trace_dict[i].trace>>

\* C9 (subset closure): every non-empty subset of a listed independent set is
\* listed too.
C9_SubsetClosure ==
    pc \in AfterIndependent =>
        \A i \in 1..Len(independent_sets) :
            \A T \in SUBSET independent_sets[i] :
                T # {} => \E j \in 1..Len(independent_sets) : independent_sets[j] = T

\* a listed set of two members, beside an activity related to one of them
C9_Witness ==
    /\ pc = "independent"
    /\ \E i \in 1..Len(independent_sets) :
          /\ Cardinality(independent_sets[i]) >= 2
          /\ \E a \in independent_sets[i] : \E b \in EventsOf(footprint_matrix) :
                footprint_matrix[<<a, b>>] = "-->"

\* C10 (empty input): with zero traces no stage raises and every stage
\* returns an empty structure.
C10_EmptyInput ==
    trace_dict = Empty =>
        /\ pc # "failed"
        /\ error = Empty
        /\ pc # "start" => initial_events = {} /\ final_events = {}
        /\ pc \in AfterDf => directly_follows = Empty
        /\ pc \in AfterFootprint => footprint_matrix = Empty
        /\ pc \in AfterIndependent => independent_sets = Empty
        /\ pc \in AfterTransitions => transitions = Empty
        /\ pc = "done" => maximal_sets = Empty

\* the whole pipeline has run on the empty dictionary
C10_Witness == trace_dict = Empty /\ pc = "done"

\* the number of cases of the log
TotalCasesOfLog == Cardinality({r.case_id : r \in df_log})

\* the cases of the log whose trace is t
CasesWithTrace(t) ==
    {c \in {r.case_id : r \in df_log} : TraceOfCase(df_log, c) = t}

RECURSIVE SumFrequencyNum(_)
\* the numerators of the frequencies of the first n traces, summed
SumFrequencyNum(n) ==
    IF n = 0 THEN 0
    ELSE trace_dict[n].metrics.frequency.num + SumFrequencyNum(n - 1)

\* every frequency of the dictionary is count / total number of cases
FrequenciesAreShares ==
    \A i \in 1..Len(trace_dict) :
        /\ trace_dict[i].metrics.count = IntVal(Cardinality(CasesWithTrace(trace_dict[i].trace)))
        /\ trace_dict[i].metrics.frequency
              = Rational(trace_dict[i].metrics.count.val, TotalCasesOfLog)

\* C11 as claimed (conservation after the filter): the dictionary handed to
\* the discovery stages has counts that sum to the number of cases of the
\* log, frequencies count / cases, and frequencies that sum to 1.
C11_ConservationAfterFilter ==
    pc = "start" =>
        /\ TotalCases(Len(trace_dict)) = TotalCasesOfLog
        /\ FrequenciesAreShares
        /\ SumFrequencyNum(Len(trace_dict)) = TotalCasesOfLog

\* C11 amended: read_log_file conserves (counts sum to the number of cases,
\* frequencies are count / cases and sum to 1); after the filter every
\* frequency is still count / cases of the log, the traces kept are exactly
\* those with frequency >= threshold, and the counts sum to the number of
\* cases whose trace has such a frequency.
C11_ConservationUpToFilter ==
    /\ pc = "read" =>
          /\ TotalCases(Len(trace_dict)) = TotalCasesOfLog
          /\ FrequenciesAreShares
          /\ SumFrequencyNum(Len(trace_dict)) = TotalCasesOfLog
    /\ pc = "start" =>
          LET kept == {c \in {r.case_id : r \in df_log} :
                          Cardinality(CasesWithTrace(TraceOfCase(df_log, c))) * min_frequency.den
                              >= min_frequency.num * TotalCasesOfLog}
          IN  /\ FrequenciesAreShares
              /\ {trace_dict[i].trace : i \in 1..Len(trace_dict)}
                    = {TraceOfCase(df_log, c) : c \in kept}
              /\ TotalCases(Len(trace_dict)) = Cardinality(kept)
              /\ SumFrequencyNum(Len(trace_dict)) = Cardinality(kept)

\* the filter has run, has kept a trace and has dropped another
C11_Witness ==
    /\ pc = "start"
    /\ Len(trace_dict) >= 1
    /\ TotalCases(Len(trace_dict)) < TotalCasesOfLog

\* transition t is strictly dominated by transition u
StrictlyDominated(t, u) ==
    CrossPairs(t) \subseteq CrossPairs(u) /\ CrossPairs(t) # CrossPairs(u)

C13_DisjointSides ==
    pc \in AfterTransitions =>
        \A k \in DOMAIN transitions : ToSet(k[1]) \cap ToSet(k[2]) = {}

\* transitions were recorded over a footprint with a self-loop, from a list
\* in which two different independent sets share an activity
C13_Witness ==
    /\ pc = "transitions"
    /\ DOMAIN transitions # {}
    /\ \E p \in DOMAIN footprint_matrix : p[1] = p[2] /\ footprint_matrix[p] = "| |"
    /\ \E i, j \in 1..Len(independent_sets) :
          i < j /\ independent_sets[i] \cap independent_sets[j] # {}

====
